---- MODULE Spec2Model ----
(***************************************************************************)
(* Control-flow combinators of promise-enhancements (src/enhancement.js,   *)
(* the later definitions of the file, which are the ones in force):        *)
(* Promise.sync and Promise.retry.  One main program calls one combinator  *)
(* (scenario); callables, in-flight promises and timers settle in any      *)
(* order the event loop allows.                                            *)
(***************************************************************************)
EXTENDS Integers, Sequences, FiniteSets, TLC

\* ------------------------------------------------------------------ bounds
MaxTasks == 4
MaxTimes == 8
MaxInputs == 3
MaxElems == 3

\* ------------------------------------------------------- program constants
DefaultTimes == 1
DefaultDelay == 500

\* --------------------------------------------------------------- JS values
Undefined == [t |-> "undefined", n |-> 0, s |-> ""]
NaN == [t |-> "NaN", n |-> 0, s |-> ""]
Num(k) == [t |-> "number", n |-> k, s |-> ""]
Str(x) == [t |-> "string", n |-> 0, s |-> x]

\* README `increment = n => n+1`, by JS `+`: number addition, string
\* concatenation, and NaN for undefined or NaN.
increment(v) ==
    CASE v.t = "number" -> Num(v.n + 1)
      [] v.t = "string" -> Str(v.s \o "1")
      [] OTHER -> NaN

\* README `getServerCount = async domain => /* returns a number */`.
getServerCount(v) == Num(10)

\* A callable of a given body applied to its first argument: what the
\* promise it returns settles to.
Apply(body, v) ==
    CASE body = "increment" -> [ok |-> TRUE, v |-> increment(v)]
      [] body = "getServerCount" -> [ok |-> TRUE, v |-> getServerCount(v)]
      [] OTHER -> [ok |-> FALSE, v |-> Str("Nay")]

\* README `restartComputer`, as the callback of <promise>.sync: called with
\* (elem, index, lastResult); it fails for an element that is not a number.
restartComputer(args) ==
    LET elem == args[1]
        index == args[2]
        lastResult == args[3]
    IN  IF elem.t # "number"
        THEN [ok |-> FALSE, v |-> Str("cannot restart " \o elem.s)]
        ELSE [ok |-> TRUE,
              v |-> Num(10 * elem.n
                        + (IF index.t = "number" THEN index.n ELSE 0)
                        + (IF lastResult.t = "number" THEN 100 * lastResult.n ELSE 0))]

\* TaskSource: a plain value, an in-flight promise, or a callable.
PlainValue(v) == [kind |-> "value", body |-> "", ok |-> TRUE, v |-> v]
InFlight(ok, v) == [kind |-> "promise", body |-> "", ok |-> ok, v |-> v]
Callable(body) == [kind |-> "function", body |-> body, ok |-> TRUE, v |-> Undefined]

\* The task <promise>.sync makes of an input: (last, i) => callback(inp, i, last).
Wrapper(inp) == [kind |-> "function", body |-> "wrapper", ok |-> TRUE, v |-> inp]

\* Mutant: the wrapper passes the input alone, inp => _ => callback(inp).
WrapperArgsInpOnly(inp, last, i) == <<inp, Undefined, Undefined>>

\* The arguments the wrapper of inp, called with (last, i), hands to callback.
WrapperArgs(inp, last, i) == <<inp, i, last>>

\* task(a, i): what the promise of the call settles to.
Call(task, a, i) ==
    IF task.body = "wrapper"
    THEN restartComputer(WrapperArgs(task.v, a, i))
    ELSE Apply(task.body, a)

TaskPool ==
    { PlainValue(Str("domain.com")),
      InFlight(TRUE, Num(7)),
      InFlight(FALSE, Str("boom")),
      Callable("getServerCount"),
      Callable("increment"),
      Callable("throw") }

SeedPool == {Undefined, Num(5)}

SeqsUpTo(S, n) == UNION {[1..k -> S] : k \in 0..n}

VARIABLES
    scenario,   \* which combinator the main program calls
    tasks,      \* Promise.sync: the tasks argument
    seedValue,  \* Promise.sync: the seedValue argument
    ret,        \* Promise.sync: const ret = []
    spc,        \* Promise.sync: "idle", "await", "resolved", "rejected"
    sret,       \* value the promise returned by Promise.sync resolved to
    serr,       \* error the promise returned by Promise.sync rejected with
    est,        \* per element: "idle", "pending", "fulfilled", "rejected"
    eres,       \* per element: what it settles to, [ok, v]
    calls,      \* log of callable invocations made by Promise.sync
    opts,       \* the options objects of the heap, by identity
    opts0,      \* the options objects as the main program constructed them
    ropt,       \* Promise.retry, per invocation: the options object it was given
    rpc,        \* per invocation: "idle", "attempting", "waiting", "resolved", "rejected"
    rentry,     \* per invocation: `times` as read when the main program called it
    rtimes,     \* per invocation: const `times` of the current frame
    rerrors,    \* per invocation: _collectedErrors
    rargs,      \* per invocation: log of the arguments fn was invoked with
    routs,      \* per invocation: log of how each invocation of fn settled
    rsleeps,    \* per invocation: log of the durations given to sleep()
    rwoke,      \* per invocation: number of its sleep timers that have fired
    rprinted,   \* per invocation: what it wrote with console.error
    rres,       \* per invocation: value resolved to, or message of the Error rejected with
    rthis,      \* per invocation: the promise .retry was chained on, if any
    rcb,        \* per invocation: log of the arguments callback was invoked with
    farr,       \* Promise.firstSuccess: the arr argument
    fst,        \* per input: "value", "pending", "fulfilled", "rejected"
    forder,     \* indices of the inputs that have settled, in settlement order
    fder,       \* per input, the promise p.then(...) made for it: "none", "pending", "rejected"
    fpc,        \* Promise.firstSuccess: "idle", "threw", "pending", "resolved", "rejected"
    fres,       \* what the call threw, or what the promise it returned settled with
    sthis,      \* <promise>.sync: the array the receiver fulfilled with
    marr,       \* <promise>.map: the array the receiver fulfilled with
    mcb,        \* per element: what callback does for it
    minv,       \* log of the arguments callback was invoked with
    mst,        \* per element: "none", "threw", "pending", "fulfilled", "rejected"
    mfail,      \* indices of the elements whose callback failed, in order of failure
    mpc,        \* the promise map returned: "idle", "pending", "resolved", "rejected"
    mres,       \* what the promise map returned settled with
    pd,         \* <promise>.print: the value the receiver fulfilled with
    pstr,       \* the str argument
    parg,       \* the printer argument
    pglobal,    \* Promise.printer
    pprinter,   \* the printer chosen when print was called
    plog,       \* what each output sink has received
    ppc,        \* the promise print returned: "idle", "pending", "resolved", "rejected"
    pres        \* what the promise print returned settled with

syncVars == <<tasks, seedValue, ret, spc, sret, serr, est, eres, calls, sthis>>

retryVars == <<opts, opts0, ropt, rpc, rentry, rtimes, rerrors, rargs, routs, rsleeps, rwoke, rprinted, rres, rthis, rcb>>

fsVars == <<farr, fst, forder, fder, fpc, fres>>

mapVars == <<marr, mcb, minv, mst, mfail, mpc, mres>>

printVars == <<pd, pstr, parg, pglobal, pprinter, plog, ppc, pres>>

restVars == <<fsVars, mapVars, printVars>>

vars == <<scenario, syncVars, retryVars, restVars>>

\* ------------------------------------------------------------ Promise.sync

\* JS array read ret[j]: undefined outside 0..length-1.
At(a, j) == IF j \in 0..(Len(a) - 1) THEN a[j + 1] ELSE Undefined

\* Mutant: reads ret[idx] where the code reads ret[idx-1].
PrevArgOffByOne(r, idx) == IF idx < 0 THEN seedValue ELSE At(r, idx)

\* First argument handed to the callable at index idx.
PrevArg(r, idx) == IF idx < 0 THEN seedValue ELSE At(r, idx - 1)

\* Mutant: the element is not awaited.
AwaitedNoWait(i) == TRUE

\* `await x` lets the async function go on once x is no longer pending.
Awaited(i) == est[i] # "pending"

SyncInit ==
    /\ tasks \in SeqsUpTo(TaskPool, MaxTasks)
    /\ seedValue \in SeedPool
    /\ ret = <<>>
    /\ spc = "idle"
    /\ sret = <<>>
    /\ serr = Undefined
    /\ est = [i \in 1..Len(tasks) |->
                CASE tasks[i].kind = "function" -> "idle"
                  [] tasks[i].kind = "promise" -> "pending"
                  [] OTHER -> "fulfilled"]
    /\ eres = [i \in 1..Len(tasks) |-> [ok |-> tasks[i].ok, v |-> tasks[i].v]]
    /\ calls = <<>>
    /\ sthis = <<>>

\* One turn of the for-loop from its head with ret = r: return ret when the
\* tasks are used up, else start the element at idx = ret.length and suspend
\* at its await.
LoopHead(r) ==
    /\ ret' = r
    /\ IF Len(r) = Len(tasks)
       THEN /\ spc' = "resolved"
            /\ sret' = r
            /\ UNCHANGED <<est, eres, calls>>
       ELSE LET idx == Len(r)
                task == tasks[idx + 1]
            IN  /\ spc' = "await"
                /\ sret' = sret
                /\ IF task.kind = "function"
                   THEN LET a == PrevArg(r, idx)
                        IN  /\ calls' = Append(calls, [idx |-> idx, args |-> <<a, Num(idx)>>])
                            /\ eres' = [eres EXCEPT ![idx + 1] = Call(task, a, Num(idx))]
                            /\ est' = [est EXCEPT ![idx + 1] = "pending"]
                   ELSE UNCHANGED <<est, eres, calls>>

\* The main program calls Promise.sync(tasks, seedValue).
SyncCall ==
    /\ scenario = "sync"
    /\ spc = "idle"
    /\ LoopHead(<<>>)
    /\ UNCHANGED <<scenario, sthis, tasks, seedValue, serr, retryVars, restVars>>

\* A pending promise (a started callable's, or an in-flight element) settles.
Settle(i) ==
    /\ scenario \in {"sync", "chainSync"}
    /\ est[i] = "pending"
    /\ est' = [est EXCEPT ![i] = IF eres[i].ok THEN "fulfilled" ELSE "rejected"]
    /\ UNCHANGED <<scenario, sthis, tasks, seedValue, ret, spc, sret, serr, eres, calls, retryVars, restVars>>

\* The await of the current element returns: push and go round the loop.
SyncResumeOk ==
    /\ spc = "await"
    /\ LET cur == Len(ret) + 1
       IN  /\ Awaited(cur)
           /\ eres[cur].ok
           /\ LoopHead(Append(ret, eres[cur].v))
    /\ UNCHANGED <<scenario, sthis, tasks, seedValue, serr, retryVars, restVars>>

\* Mutant: the failure of an element is swallowed and the loop goes on.
SyncResumeSwallow ==
    /\ spc = "await"
    /\ LET cur == Len(ret) + 1
       IN  /\ Awaited(cur)
           /\ ~eres[cur].ok
           /\ LoopHead(Append(ret, Undefined))
    /\ UNCHANGED <<scenario, sthis, tasks, seedValue, serr, retryVars, restVars>>

\* The await of the current element throws: the async function rejects.
SyncResumeThrow ==
    /\ spc = "await"
    /\ LET cur == Len(ret) + 1
       IN  /\ Awaited(cur)
           /\ ~eres[cur].ok
           /\ serr' = eres[cur].v
    /\ spc' = "rejected"
    /\ UNCHANGED <<scenario, sthis, tasks, seedValue, ret, sret, est, eres, calls, retryVars, restVars>>

\* The inputs of the README example: names; here numbers, and one input
\* the callback fails for.
InputPool == {Num(1), Num(2), Str("ap")}

ChainSyncInit ==
    /\ sthis \in SeqsUpTo(InputPool, MaxElems)
    /\ tasks = <<>>
    /\ seedValue = Undefined
    /\ ret = <<>>
    /\ spc = "idle"
    /\ sret = <<>>
    /\ serr = Undefined
    /\ est = <<>>
    /\ eres = <<>>
    /\ calls = <<>>

\* The handler <promise>.sync gave to then() runs with the array: every
\* input becomes a wrapper task and Promise.sync(arr) is called without a
\* seed, which runs to the await of the first task.  (A receiver that is
\* not an array takes the other branch, callback(r, 0); the receivers here
\* are arrays.)
ChainSyncThen ==
    /\ scenario = "chainSync"
    /\ spc = "idle"
    /\ tasks' = [i \in 1..Len(sthis) |-> Wrapper(sthis[i])]
    /\ ret' = <<>>
    /\ IF Len(sthis) = 0
       THEN /\ spc' = "resolved"
            /\ sret' = <<>>
            /\ UNCHANGED <<est, eres, calls>>
       ELSE LET a == PrevArg(<<>>, 0)
            IN  /\ spc' = "await"
                /\ sret' = sret
                /\ calls' = <<[idx |-> 0, args |-> <<a, Num(0)>>]>>
                /\ eres' = [i \in 1..Len(sthis) |->
                             IF i = 1 THEN Call(Wrapper(sthis[1]), a, Num(0))
                             ELSE [ok |-> TRUE, v |-> Undefined]]
                /\ est' = [i \in 1..Len(sthis) |-> IF i = 1 THEN "pending" ELSE "idle"]
    /\ UNCHANGED <<scenario, sthis, seedValue, serr, retryVars, restVars>>

\* The calls of callback so far, read off the calls Promise.sync made of the
\* wrapper tasks.
CallbackCalls ==
    [k \in 1..Len(calls) |->
        WrapperArgs(tasks[calls[k].idx + 1].v, calls[k].args[1], calls[k].args[2])]

SyncNext ==
    \/ SyncCall
    \/ ChainSyncThen
    \/ \E i \in 1..Len(tasks) : Settle(i)
    \/ SyncResumeOk
    \/ SyncResumeThrow

\* ----------------------------------------------------------- Promise.retry

\* The retry invocations the main program makes, and the options objects.
Retries == {"A", "B"}
OptIds == {"o1", "o2"}

\* An options field that may be absent: <<>> or <<value>>; destructuring with
\* a default, `{times = 1, delay = 500} = options`.
Get(field, default) == IF field = <<>> THEN default ELSE field[1]

\* Number to string, as string concatenation converts a non-negative integer.
RECURSIVE ToStr(_)
ToStr(n) ==
    LET digit == <<"0", "1", "2", "3", "4", "5", "6", "7", "8", "9">>[(n % 10) + 1]
    IN  IF n < 10 THEN digit ELSE ToStr(n \div 10) \o digit

\* Array.prototype.join(sep) of an array of strings.
RECURSIVE Join(_, _)
Join(a, sep) ==
    IF Len(a) = 0 THEN ""
    ELSE IF Len(a) = 1 THEN a[1]
    ELSE a[1] \o sep \o Join(Tail(a), sep)

\* Mutant: gives up with one attempt left.
ExhaustedOffByOne(times) == times <= 1

\* Mutant: a budget of 0 is not seen as used up.
ExhaustedStrict(times) == times < 0

\* `times <= 0`
Exhausted(times) == times <= 0

\* `${errorPrefix}Exhausted retry loops:\n${_collectedErrors.join('\n')}`
ExhaustedMessage(errorPrefix, errs) ==
    errorPrefix \o "Exhausted retry loops:\n" \o Join(errs, "\n")

\* Mutant: the budget falls by two.
DecrementTwice(times) == times - 2

\* `{times: times - 1}`
Decrement(times) == times - 1

\* What the callable does when invoked: the model's fn resolves to 'Yay' or
\* rejects with 'Nay<k>' on its k-th invocation, either at any invocation.
FnValue == "Yay"
FnError(k) == "Nay" \o ToStr(k)

\* Promise.retry called directly: no receiver to wait for.
NoReceiver == [chained |-> FALSE, st |-> "fulfilled", ok |-> TRUE, v |-> Undefined]

\* <promise>.retry(callback, options): the receiver, still pending, and what
\* it settles to.
Receiver(ok, v) == [chained |-> TRUE, st |-> "pending", ok |-> ok, v |-> v]

ReceiverPool == {NoReceiver, Receiver(TRUE, Num(7)), Receiver(FALSE, Str("boom"))}

\* Mutant: the wrapper of the earlier definition, `_ => callback(val)`.
CallbackArgsValOnly(val, remainingAttempts) == <<val>>

\* `remainingAttempts => callback(val, remainingAttempts)`
CallbackArgs(val, remainingAttempts) == <<val, remainingAttempts>>

RetryIdleInit ==
    /\ opts = [o \in OptIds |-> [times |-> <<>>, delay |-> <<>>, printErrors |-> FALSE, errorPrefix |-> "", retries |-> <<>>]]
    /\ opts0 = opts
    /\ ropt = [r \in Retries |-> "o1"]
    /\ rpc = [r \in Retries |-> "idle"]
    /\ rentry = [r \in Retries |-> 0]
    /\ rtimes = [r \in Retries |-> 0]
    /\ rerrors = [r \in Retries |-> <<>>]
    /\ rargs = [r \in Retries |-> <<>>]
    /\ routs = [r \in Retries |-> <<>>]
    /\ rsleeps = [r \in Retries |-> <<>>]
    /\ rwoke = [r \in Retries |-> 0]
    /\ rprinted = [r \in Retries |-> <<>>]
    /\ rres = [r \in Retries |-> ""]
    /\ rthis = [r \in Retries |-> NoReceiver]
    /\ rcb = [r \in Retries |-> <<>>]

TimesPool == {<<>>} \cup {<<n>> : n \in 0..MaxTimes}

\* README: the options {retries: 2} and {retries: 8}, a property the
\* destructuring of Promise.retry does not name; <<>> when absent.
RetriesPool == {<<>>, <<2>>, <<8>>}

RetryInit ==
    /\ \E t1 \in TimesPool, d1 \in {<<>>, <<20>>}, p1 \in BOOLEAN, x1 \in {"", "ctx: "},
          t2 \in TimesPool, shared \in BOOLEAN, recv \in ReceiverPool, n1 \in RetriesPool :
          /\ shared => t2 = <<>>
          /\ recv.chained => (d1 = <<>> /\ ~p1 /\ x1 = "")
          /\ n1 # <<>> => (t1 = <<>> /\ d1 = <<>> /\ ~p1 /\ x1 = "" /\ t2 = <<>>
                           /\ ~shared /\ ~recv.chained)
          /\ rthis = [r \in Retries |-> IF r = "A" THEN recv ELSE NoReceiver]
          /\ opts = [o \in OptIds |->
                       IF o = "o1"
                       THEN [times |-> t1, delay |-> d1, printErrors |-> p1, errorPrefix |-> x1,
                             retries |-> n1]
                       ELSE [times |-> t2, delay |-> <<>>, printErrors |-> FALSE, errorPrefix |-> "",
                             retries |-> <<>>]]
          /\ ropt = [r \in Retries |-> IF r = "A" \/ shared THEN "o1" ELSE "o2"]
    /\ opts0 = opts
    /\ rpc = [r \in Retries |-> "idle"]
    /\ rentry = [r \in Retries |-> 0]
    /\ rtimes = [r \in Retries |-> 0]
    /\ rerrors = [r \in Retries |-> <<>>]
    /\ rargs = [r \in Retries |-> <<>>]
    /\ routs = [r \in Retries |-> <<>>]
    /\ rsleeps = [r \in Retries |-> <<>>]
    /\ rwoke = [r \in Retries |-> 0]
    /\ rprinted = [r \in Retries |-> <<>>]
    /\ rres = [r \in Retries |-> ""]
    /\ rcb = [r \in Retries |-> <<>>]

\* The body of Promise.retry from its first line to its first suspension, run
\* by invocation r on heap o with collected errors errs: destructure the
\* options, throw when exhausted, else invoke fn(times) and await it.
Enter(r, o, errs) ==
    LET options == o[ropt[r]]
        times == Get(options.times, DefaultTimes)
    IN  /\ opts' = o
        /\ rtimes' = [rtimes EXCEPT ![r] = times]
        /\ IF Exhausted(times)
           THEN /\ rpc' = [rpc EXCEPT ![r] = "rejected"]
                /\ rres' = [rres EXCEPT ![r] = ExhaustedMessage(options.errorPrefix, errs)]
                /\ rargs' = rargs
                /\ rcb' = rcb
           ELSE /\ rpc' = [rpc EXCEPT ![r] = "attempting"]
                /\ rres' = rres
                /\ rargs' = [rargs EXCEPT ![r] = Append(@, times)]
                /\ rcb' = [rcb EXCEPT ![r] =
                              IF rthis[r].chained
                              THEN Append(@, CallbackArgs(rthis[r].v, times))
                              ELSE @]

\* The promise .retry was chained on settles.  When it rejects, the handler
\* given to then() never runs and Promise.retry is not called.
ReceiverSettle(r) ==
    /\ scenario = "retry"
    /\ rthis[r].st = "pending"
    /\ rthis' = [rthis EXCEPT ![r].st = IF rthis[r].ok THEN "fulfilled" ELSE "rejected"]
    /\ UNCHANGED <<scenario, syncVars, restVars, opts, opts0, ropt, rpc, rentry, rtimes, rerrors,
                   rargs, routs, rsleeps, rwoke, rprinted, rres, rcb>>

\* The main program calls Promise.retry(fn, options), or the handler of
\* <promise>.retry(callback, options) does, with the wrapper of callback as fn.
RetryCall(r) ==
    /\ scenario = "retry"
    /\ rpc[r] = "idle"
    /\ rthis[r].st = "fulfilled"
    /\ rentry' = [rentry EXCEPT ![r] = Get(opts[ropt[r]].times, DefaultTimes)]
    /\ Enter(r, opts, rerrors[r])
    /\ UNCHANGED <<scenario, syncVars, restVars, opts0, ropt, rerrors, routs, rsleeps, rwoke, rprinted, rthis>>

\* fn's promise fulfils: `return out`.
FnResolve(r) ==
    /\ rpc[r] = "attempting"
    /\ routs' = [routs EXCEPT ![r] = Append(@, [ok |-> TRUE, v |-> FnValue])]
    /\ rpc' = [rpc EXCEPT ![r] = "resolved"]
    /\ rres' = [rres EXCEPT ![r] = FnValue]
    /\ UNCHANGED <<scenario, syncVars, restVars, opts0, opts, ropt, rentry, rtimes, rerrors, rargs, rsleeps, rwoke, rprinted, rthis, rcb>>

\* Mutant: the error goes to the front of _collectedErrors (unshift for push).
CatchUnshift(r, e) ==
    LET options == opts[ropt[r]]
    IN  /\ rprinted' = [rprinted EXCEPT ![r] =
                           IF options.printErrors
                           THEN Append(@, <<options.errorPrefix \o "Retry loop failed:", e>>)
                           ELSE @]
        /\ rerrors' = [rerrors EXCEPT ![r] = <<e>> \o @]
        /\ rsleeps' = [rsleeps EXCEPT ![r] = Append(@, Get(options.delay, DefaultDelay))]
        /\ rpc' = [rpc EXCEPT ![r] = "waiting"]

\* The catch block and the statement after it, for the error e: print when
\* asked to, push e, start sleep(delay) and await it.
Catch(r, e) ==
    LET options == opts[ropt[r]]
    IN  /\ rprinted' = [rprinted EXCEPT ![r] =
                           IF options.printErrors
                           THEN Append(@, <<options.errorPrefix \o "Retry loop failed:", e>>)
                           ELSE @]
        /\ rerrors' = [rerrors EXCEPT ![r] = Append(@, e)]
        /\ rsleeps' = [rsleeps EXCEPT ![r] = Append(@, Get(options.delay, DefaultDelay))]
        /\ rpc' = [rpc EXCEPT ![r] = "waiting"]

\* Mutant: sleep(delay) is started but not awaited, so the recursive call is
\* made in the turn of the catch.
FnRejectNoAwait(r) ==
    /\ rpc[r] = "attempting"
    /\ LET e == FnError(Len(rargs[r]))
           options == opts[ropt[r]]
           errs == Append(rerrors[r], e)
       IN  /\ routs' = [routs EXCEPT ![r] = Append(@, [ok |-> FALSE, v |-> e])]
           /\ rprinted' = rprinted
           /\ rerrors' = [rerrors EXCEPT ![r] = errs]
           /\ rsleeps' = [rsleeps EXCEPT ![r] = Append(@, Get(options.delay, DefaultDelay))]
           /\ Enter(r, [opts EXCEPT ![ropt[r]].times = <<Decrement(rtimes[r])>>], errs)
    /\ UNCHANGED <<scenario, syncVars, restVars, opts0, ropt, rentry, rwoke, rthis>>

\* fn throws, or its promise rejects.
FnReject(r) ==
    /\ rpc[r] = "attempting"
    /\ LET e == FnError(Len(rargs[r]))
       IN  /\ routs' = [routs EXCEPT ![r] = Append(@, [ok |-> FALSE, v |-> e])]
           /\ Catch(r, e)
    /\ UNCHANGED <<scenario, syncVars, restVars, opts0, opts, ropt, rentry, rtimes, rargs, rwoke, rres, rthis, rcb>>

\* Mutant: the new budget is computed from the options object, not from the
\* local `times`: Object.assign(options, {times: options.times - 1}).
TimerFireFromOptions(r) ==
    /\ rpc[r] = "waiting"
    /\ rwoke' = [rwoke EXCEPT ![r] = @ + 1]
    /\ Enter(r, [opts EXCEPT ![ropt[r]].times =
                    <<Decrement(Get(opts[ropt[r]].times, DefaultTimes))>>], rerrors[r])
    /\ UNCHANGED <<scenario, syncVars, restVars, opts0, ropt, rentry, rerrors, routs, rsleeps, rprinted, rthis>>

\* Mutant: the timer fires but the continuation of the await is lost, as
\* with a sleep whose promise is never resolved.
TimerFireLost(r) ==
    /\ rpc[r] = "waiting"
    /\ rpc' = [rpc EXCEPT ![r] = "lost"]
    /\ UNCHANGED <<scenario, syncVars, restVars, opts, opts0, ropt, rentry, rtimes, rerrors,
                   rargs, routs, rsleeps, rwoke, rprinted, rres, rthis, rcb>>

\* The sleep timer fires: Object.assign(options, {times: times - 1}) and the
\* recursive call, which runs to its first suspension in the same turn.
TimerFire(r) ==
    /\ rpc[r] = "waiting"
    /\ rwoke' = [rwoke EXCEPT ![r] = @ + 1]
    /\ Enter(r, [opts EXCEPT ![ropt[r]].times = <<Decrement(rtimes[r])>>], rerrors[r])
    /\ UNCHANGED <<scenario, syncVars, restVars, opts0, ropt, rentry, rerrors, routs, rsleeps, rprinted, rthis>>

RetryNext ==
    \/ \E r \in Retries : ReceiverSettle(r)
    \/ \E r \in Retries : RetryCall(r)
    \/ \E r \in Retries : FnResolve(r)
    \/ \E r \in Retries : FnReject(r)
    \/ \E r \in Retries : TimerFire(r)

\* ---------------------------------------------------- Promise.firstSuccess

\* The Promise constructor, as the this value of a call Promise.all(...).
PromiseCtor == [t |-> "function", n |-> 0, s |-> "Promise"]

\* `const {all, reject, resolve} = Promise`: the three are then called as
\* plain functions, all(...), reject(...), resolve(...), whose this value is
\* undefined.
ThisOfDestructured == Undefined

\* Promise.all, Promise.reject and Promise.resolve begin with
\* NewPromiseCapability(this value), which throws a TypeError unless the this
\* value is a constructor.
ThrowsOnThis(thisValue) == thisValue.t # "function"

TypeErrorOfThis == Str("TypeError: Promise.all called on non-object")
TypeErrorOfThen == Str("TypeError: p.then is not a function")

\* Inputs: promises in flight and a plain number (README: 20).
FsPool ==
    { InFlight(TRUE, Num(20)),
      InFlight(FALSE, Num(10)),
      InFlight(FALSE, Num(30)),
      PlainValue(Num(20)) }

\* `p.then` is a function for a promise and undefined for a number.
HasThen(p) == p.kind = "promise"

\* Index of the first input arr.map's callback throws at, or Len(arr) + 1.
FirstWithoutThen(arr) ==
    LET bad == {i \in 1..Len(arr) : ~HasThen(arr[i])}
    IN  IF bad = {} THEN Len(arr) + 1 ELSE CHOOSE i \in bad : \A j \in bad : i <= j

FsInit ==
    /\ farr \in SeqsUpTo(FsPool, MaxInputs)
    /\ fst = [i \in 1..Len(farr) |-> IF HasThen(farr[i]) THEN "pending" ELSE "value"]
    /\ forder = <<>>
    /\ fder = [i \in 1..Len(farr) |-> "none"]
    /\ fpc = "idle"
    /\ fres = Undefined

FsIdleInit ==
    /\ farr = <<>>
    /\ fst = <<>>
    /\ forder = <<>>
    /\ fder = <<>>
    /\ fpc = "idle"
    /\ fres = Undefined

\* The main program calls Promise.firstSuccess(arr).  arr.map attaches the
\* two handlers to every input up to the first one without a then method,
\* where it throws; with no such input, all(...) is called and throws on its
\* this value.
FsCall ==
    /\ scenario = "firstSuccess"
    /\ fpc = "idle"
    /\ LET bad == FirstWithoutThen(farr)
       IN  /\ fder' = [i \in 1..Len(farr) |-> IF i < bad THEN "pending" ELSE "none"]
           /\ IF bad <= Len(farr)
              THEN fpc' = "threw" /\ fres' = TypeErrorOfThen
              ELSE IF ThrowsOnThis(ThisOfDestructured)
              THEN fpc' = "threw" /\ fres' = TypeErrorOfThis
              ELSE fpc' = "pending" /\ fres' = fres
    /\ UNCHANGED <<scenario, syncVars, retryVars, mapVars, printVars, farr, fst, forder>>

\* An input promise settles.
FsInputSettle(i) ==
    /\ scenario = "firstSuccess"
    /\ fst[i] = "pending"
    /\ fst' = [fst EXCEPT ![i] = IF farr[i].ok THEN "fulfilled" ELSE "rejected"]
    /\ forder' = Append(forder, i)
    /\ UNCHANGED <<scenario, syncVars, retryVars, mapVars, printVars, farr, fder, fpc, fres>>

\* The handler attached to input i runs: val => reject(val) or
\* err => resolve(err), either throwing on its this value, so that the
\* promise p.then(...) returned rejects with that TypeError.
FsHandler(i) ==
    /\ fder[i] = "pending"
    /\ fst[i] \in {"fulfilled", "rejected"}
    /\ ThrowsOnThis(ThisOfDestructured)
    /\ fder' = [fder EXCEPT ![i] = "rejected"]
    /\ UNCHANGED <<scenario, syncVars, retryVars, mapVars, printVars, farr, fst, forder, fpc, fres>>

FsNext ==
    \/ FsCall
    \/ \E i \in 1..Len(farr) : FsInputSettle(i)
    \/ \E i \in 1..Len(farr) : FsHandler(i)

\* ------------------------------------------------------- <promise>.map

\* What callback does for an element: return a value, return a promise that
\* fulfils or rejects later, or throw.
CallbackKinds == {"value", "resolve", "reject", "throw"}

\* README `i => i**2`, and the error of a callback that fails for element x.
MapValue(x) == Num(x.n * x.n)
MapError(x) == Str("E" \o ToStr(x.n))

\* README: Promise.resolve([1,2,3,4,5]).
MapInit ==
    /\ \E k \in 0..MaxElems :
          /\ marr = [i \in 1..k |-> Num(i)]
          /\ mcb \in [1..k -> CallbackKinds]
          /\ mst = [i \in 1..k |-> "none"]
    /\ minv = <<>>
    /\ mfail = <<>>
    /\ mpc = "idle"
    /\ mres = <<>>

MapIdleInit ==
    /\ marr = <<>>
    /\ mcb = <<>>
    /\ mst = <<>>
    /\ minv = <<>>
    /\ mfail = <<>>
    /\ mpc = "idle"
    /\ mres = <<>>

\* Index of the first element callback throws for, or Len(arr) + 1.
FirstThrow(cb) ==
    LET bad == {i \in 1..Len(cb) : cb[i] = "throw"}
    IN  IF bad = {} THEN Len(cb) + 1 ELSE CHOOSE i \in bad : \A j \in bad : i <= j

\* Mutant: callback is applied to the first element only.
InvokedCountOne(cb) == IF Len(cb) = 0 THEN 0 ELSE 1

\* Number of elements arr.map(callback) invokes callback for: all of them,
\* or those up to the one callback throws for.
InvokedCount(cb) == IF FirstThrow(cb) <= Len(cb) THEN FirstThrow(cb) ELSE Len(cb)

\* The handler map gave to then() runs with the array: arr.map(callback)
\* invokes callback(element, index) for the elements in order, in this one
\* turn; a throw ends the handler and rejects the promise map returned, else
\* Promise.all of the results is returned.
MapThen ==
    /\ scenario = "map"
    /\ mpc = "idle"
    /\ LET n == InvokedCount(mcb)
           t == FirstThrow(mcb)
       IN  /\ minv' = [k \in 1..n |-> <<marr[k], k - 1>>]
           /\ mst' = [i \in 1..Len(marr) |->
                        IF i > n THEN "none"
                        ELSE CASE mcb[i] = "throw" -> "threw"
                               [] mcb[i] = "value" -> "fulfilled"
                               [] OTHER -> "pending"]
           /\ IF t <= n
              THEN /\ mpc' = "rejected"
                   /\ mres' = MapError(marr[t])
                   /\ mfail' = <<t>>
              ELSE /\ mpc' = "pending"
                   /\ mres' = mres
                   /\ mfail' = mfail
    /\ UNCHANGED <<scenario, syncVars, retryVars, fsVars, printVars, marr, mcb>>

\* Mutant: a rejected element does not reject the promise map returned.
MapSettleIgnore(i) ==
    /\ mst[i] = "pending"
    /\ mst' = [mst EXCEPT ![i] = IF mcb[i] = "resolve" THEN "fulfilled" ELSE "rejected"]
    /\ mfail' = IF mcb[i] = "resolve" THEN mfail ELSE Append(mfail, i)
    /\ UNCHANGED <<mpc, mres>>
    /\ UNCHANGED <<scenario, syncVars, retryVars, fsVars, printVars, marr, mcb, minv>>

\* The promise callback returned for element i settles; a rejection rejects
\* the promise of Promise.all, and so the one map returned, unless that has
\* settled already.
MapSettle(i) ==
    /\ mst[i] = "pending"
    /\ mst' = [mst EXCEPT ![i] = IF mcb[i] = "resolve" THEN "fulfilled" ELSE "rejected"]
    /\ mfail' = IF mcb[i] = "resolve" THEN mfail ELSE Append(mfail, i)
    /\ IF mcb[i] # "resolve" /\ mpc = "pending"
       THEN mpc' = "rejected" /\ mres' = MapError(marr[i])
       ELSE UNCHANGED <<mpc, mres>>
    /\ UNCHANGED <<scenario, syncVars, retryVars, fsVars, printVars, marr, mcb, minv>>

\* Promise.all fulfils once every result has: with the results by index.
MapAllResolve ==
    /\ mpc = "pending"
    /\ \A i \in 1..Len(marr) : mst[i] = "fulfilled"
    /\ mpc' = "resolved"
    /\ mres' = [i \in 1..Len(marr) |-> MapValue(marr[i])]
    /\ UNCHANGED <<scenario, syncVars, retryVars, fsVars, printVars, marr, mcb, minv, mst, mfail>>

MapNext ==
    \/ MapThen
    \/ \E i \in 1..Len(marr) : MapSettle(i)
    \/ MapAllResolve

\* ----------------------------------------------------- <promise>.print

\* A printer is named by a string; "" stands for undefined.
NoPrinter == ""

\* The str argument: a string, or a function of the value.
StrText(x) == [kind |-> "string", body |-> x]
StrFn(body) == [kind |-> "function", body |-> body]

\* README: 'Starting Chain with 1', v => `New Value = ${v}`; and a function
\* that throws.
StrPool == {StrText("Starting Chain with 1"), StrFn("template"), StrFn("throw")}

\* README: console.error as the printer argument; and a printer that throws.
PrinterArgPool == {NoPrinter, "console.error", "thrower"}

\* Promise.printer: not set, or set by the program.
GlobalPrinterPool == {NoPrinter, "custom"}

\* What the receiver settled with: fulfilled with a value, or rejected.
PrintReceiverPool ==
    { [ok |-> TRUE, v |-> Num(1)],
      [ok |-> TRUE, v |-> Str("x")],
      [ok |-> TRUE, v |-> Undefined],
      [ok |-> FALSE, v |-> Str("boom")] }

\* `${v}` of a template literal.
Template(v) ==
    CASE v.t = "number" -> ToStr(v.n)
      [] v.t = "string" -> v.s
      [] v.t = "NaN" -> "NaN"
      [] OTHER -> "undefined"

\* typeof str === 'function' ? str(d) : str, when it does not throw.
TextOf(str, d) ==
    IF str.kind = "function" THEN "New Value = " \o Template(d) ELSE str.body

StrThrows(str) == str.kind = "function" /\ str.body = "throw"
PrinterThrows(printer) == printer = "thrower"

\* printer || Promise.printer || console.log
ChoosePrinter(printer, global) ==
    IF printer # NoPrinter THEN printer
    ELSE IF global # NoPrinter THEN global
    ELSE "console.log"

\* Mutant: the handler returns what the printer returned.
PrintResultOfPrinter(d, printed) == printed

\* The comma expression (printer(...), d): its value is d.
PrintResult(d, printed) == d

PrintInit ==
    /\ pd \in PrintReceiverPool
    /\ pstr \in StrPool
    /\ parg \in PrinterArgPool
    /\ pglobal \in GlobalPrinterPool
    /\ pprinter = NoPrinter
    /\ plog = <<>>
    /\ ppc = "idle"
    /\ pres = Undefined

PrintIdleInit ==
    /\ pd = [ok |-> TRUE, v |-> Undefined]
    /\ pstr = StrText("")
    /\ parg = NoPrinter
    /\ pglobal = NoPrinter
    /\ pprinter = NoPrinter
    /\ plog = <<>>
    /\ ppc = "idle"
    /\ pres = Undefined

\* The program calls <promise>.print(str, printer): the printer is chosen
\* and the handler is given to then().
PrintCall ==
    /\ scenario = "print"
    /\ ppc = "idle"
    /\ pprinter' = ChoosePrinter(parg, pglobal)
    /\ ppc' = "pending"
    /\ UNCHANGED <<scenario, syncVars, retryVars, fsVars, mapVars, pd, pstr, parg, pglobal, plog, pres>>

\* The handler runs with the value d the receiver fulfilled with: the text
\* is computed, the printer is called with it, and d is returned; a throw of
\* str or of the printer rejects the promise print returned.
PrintThen ==
    /\ ppc = "pending"
    /\ pd.ok
    /\ IF StrThrows(pstr)
       THEN /\ ppc' = "rejected"
            /\ pres' = Str("str threw")
            /\ plog' = plog
       ELSE /\ plog' = Append(plog, [sink |-> pprinter, text |-> TextOf(pstr, pd.v)])
            /\ IF PrinterThrows(pprinter)
               THEN /\ ppc' = "rejected"
                    /\ pres' = Str("printer threw")
               ELSE /\ ppc' = "resolved"
                    /\ pres' = PrintResult(pd.v, Undefined)
    /\ UNCHANGED <<scenario, syncVars, retryVars, fsVars, mapVars, pd, pstr, parg, pglobal, pprinter>>

\* The receiver rejected: then() has no rejection handler, the promise
\* print returned rejects with the same reason and nothing is printed.
PrintSkip ==
    /\ ppc = "pending"
    /\ ~pd.ok
    /\ ppc' = "rejected"
    /\ pres' = pd.v
    /\ UNCHANGED <<scenario, syncVars, retryVars, fsVars, mapVars, pd, pstr, parg, pglobal, pprinter, plog>>

PrintNext ==
    \/ PrintCall
    \/ PrintThen
    \/ PrintSkip

\* ------------------------------------------------------------ the program

SyncIdleInit ==
    /\ tasks = <<>>
    /\ seedValue = Undefined
    /\ ret = <<>>
    /\ spc = "idle"
    /\ sret = <<>>
    /\ serr = Undefined
    /\ est = <<>>
    /\ eres = <<>>
    /\ calls = <<>>
    /\ sthis = <<>>

Init ==
    \/ /\ scenario = "sync"
       /\ SyncInit
       /\ RetryIdleInit
       /\ FsIdleInit
       /\ MapIdleInit
       /\ PrintIdleInit
    \/ /\ scenario = "retry"
       /\ RetryInit
       /\ SyncIdleInit
       /\ FsIdleInit
       /\ MapIdleInit
       /\ PrintIdleInit
    \/ /\ scenario = "firstSuccess"
       /\ FsInit
       /\ SyncIdleInit
       /\ RetryIdleInit
       /\ MapIdleInit
       /\ PrintIdleInit
    \/ /\ scenario = "chainSync"
       /\ ChainSyncInit
       /\ RetryIdleInit
       /\ FsIdleInit
       /\ MapIdleInit
       /\ PrintIdleInit
    \/ /\ scenario = "print"
       /\ PrintInit
       /\ SyncIdleInit
       /\ RetryIdleInit
       /\ FsIdleInit
       /\ MapIdleInit
    \/ /\ scenario = "map"
       /\ MapInit
       /\ SyncIdleInit
       /\ RetryIdleInit
       /\ FsIdleInit
       /\ PrintIdleInit

Next ==
    \/ SyncNext
    \/ RetryNext
    \/ FsNext
    \/ MapNext
    \/ PrintNext

Spec == Init /\ [][Next]_vars

\* Every invocation of fn that was started settles and every sleep timer that
\* was started fires: the promise of fn and the timer of sleep(delay) are the
\* two things an invocation of Promise.retry awaits.
RetryFairness ==
    \A r \in Retries :
        /\ WF_vars(FnResolve(r) \/ FnReject(r))
        /\ WF_vars(TimerFire(r))

\* The program that calls retry, with the options that do not bear on how
\* long retry runs left at their defaults: delay, printErrors and errorPrefix.
FairInit ==
    /\ Init
    /\ scenario = "retry"
    /\ \A o \in OptIds :
          /\ opts[o].delay = <<>>
          /\ ~opts[o].printErrors
          /\ opts[o].errorPrefix = ""

FairSpec == FairInit /\ [][RetryNext]_vars /\ RetryFairness

\* ----------------------------------------------------- Promise.retry claims

\* The errors of the settled invocations of fn, in invocation order.
FailureLog(r) == [j \in 1..Len(routs[r]) |-> routs[r][j].v]

AllFailed(r, n) == \A j \in 1..n : ~routs[r][j].ok

\* C5: a callable that fails k times and then succeeds, with times > k, makes
\* retry resolve to the success value after exactly k+1 invocations and k
\* delays, the errors not being part of the result; retry does not give up
\* while fewer than `times` invocations have failed.
C5_SuccessAfterFailures ==
    \A r \in Retries :
        /\ rpc[r] = "rejected" => Len(routs[r]) >= rentry[r]
        /\ (Len(routs[r]) >= 1 /\ routs[r][Len(routs[r])].ok) => rpc[r] = "resolved"
        /\ rpc[r] = "resolved" =>
              LET k == Len(routs[r]) - 1
              IN  /\ k >= 0 /\ k < rentry[r]
                  /\ AllFailed(r, k)
                  /\ routs[r][k + 1].ok
                  /\ Len(rargs[r]) = k + 1
                  /\ Len(rsleeps[r]) = k
                  /\ rwoke[r] = k
                  /\ \A j \in 1..k : rsleeps[r][j] = Get(opts[ropt[r]].delay, DefaultDelay)
                  /\ Len(rerrors[r]) = k
                  /\ rres[r] = routs[r][k + 1].v
                  /\ rres[r] = "Yay"

\* C5 witness: the case of the specification, four failures and a success
\* with times = 8.
C5_Witness ==
    \E r \in Retries : rpc[r] = "resolved" /\ rentry[r] = 8 /\ Len(rerrors[r]) = 4

\* C6: with times = n >= 1 and a callable that always fails, the callable is
\* invoked exactly n times and retry rejects with errorPrefix, the text
\* 'Exhausted retry loops:' and the n errors in attempt order, newline-joined.
C6_Exhaustion ==
    \A r \in Retries :
        /\ rpc[r] # "idle" => Len(rargs[r]) <= rentry[r]
        /\ (rpc[r] = "rejected" /\ rentry[r] >= 1) =>
              /\ Len(rargs[r]) = rentry[r]
              /\ Len(routs[r]) = rentry[r]
              /\ AllFailed(r, rentry[r])
              /\ rres[r] = opts[ropt[r]].errorPrefix \o "Exhausted retry loops:\n"
                              \o Join(FailureLog(r), "\n")
              /\ rentry[r] = 2 =>
                    rres[r] \in {"Exhausted retry loops:\nNay1\nNay2",
                                 "ctx: Exhausted retry loops:\nNay1\nNay2"}

\* C6 witness: an exhausted run of two attempts, as in the specification.
C6_Witness ==
    \E r \in Retries : rpc[r] = "rejected" /\ rentry[r] = 2 /\ Len(rargs[r]) = 2

\* C7: with times = 0 retry rejects in the turn of the call, with the
\* exhausted-retries error listing no error; fn is never invoked and no
\* delay is taken.
C7_ZeroTimes ==
    \A r \in Retries :
        (rpc[r] # "idle" /\ rentry[r] = 0) =>
            /\ rpc[r] = "rejected"
            /\ rargs[r] = <<>>
            /\ routs[r] = <<>>
            /\ rsleeps[r] = <<>>
            /\ rerrors[r] = <<>>
            /\ rres[r] = opts[ropt[r]].errorPrefix \o "Exhausted retry loops:\n"

\* C7 witness: retry was called with times: 0 in the options object.
C7_Witness ==
    \E r \in Retries :
        rpc[r] = "rejected" /\ rentry[r] = 0 /\ opts[ropt[r]].times = <<0>>

\* C8: no wait is taken after the last failed attempt: a run of n >= 1
\* attempts that exhausts has waited exactly n-1 times when it rejects.
C8_NoWaitAfterLastAttempt ==
    \A r \in Retries :
        (rpc[r] = "rejected" /\ Len(rargs[r]) >= 1) =>
            Len(rsleeps[r]) = Len(rargs[r]) - 1

\* C9: at most one attempt of an invocation is in flight, and attempt k+1 is
\* started only after attempt k settled as a failure and the wait that
\* followed it has elapsed.
C9_AttemptsSequential ==
    \A r \in Retries :
        /\ Len(rargs[r]) - Len(routs[r]) \in {0, 1}
        /\ Len(rargs[r]) - Len(routs[r]) = 1 <=> rpc[r] = "attempting"
        /\ \A j \in 1..(Len(rargs[r]) - 1) : ~routs[r][j].ok
        /\ Len(rargs[r]) <= rwoke[r] + 1
        /\ rwoke[r] <= Len(rsleeps[r])

\* C9 witness: a third attempt in flight.
C9_Witness ==
    \E r \in Retries : rpc[r] = "attempting" /\ Len(rargs[r]) = 3 /\ rwoke[r] = 2

\* C10: fn is invoked with the remaining-attempts count, n, n-1, ..., never
\* below 1, n being the count read at the call; the collected errors are the
\* errors of the failed attempts, one per failed attempt, in order.
C10_RemainingAttempts ==
    \A r \in Retries :
        /\ \A j \in 1..Len(rargs[r]) :
              rargs[r][j] = rentry[r] - (j - 1) /\ rargs[r][j] >= 1
        /\ rpc[r] = "attempting" => rtimes[r] = rargs[r][Len(rargs[r])]
        /\ LET nfail == Cardinality({j \in 1..Len(routs[r]) : ~routs[r][j].ok})
           IN  /\ Len(rerrors[r]) = nfail
               /\ \A j \in 1..nfail : rerrors[r][j] = routs[r][j].v

\* C10 witness: two invocations that share one options object have both
\* made a third attempt.
C10_Witness ==
    /\ ropt["A"] = ropt["B"]
    /\ \A r \in Retries : Len(rargs[r]) >= 3

\* C11: two retry invocations given the same options object do not change
\* each other's remaining-attempts count: each starts from the count the
\* options object was constructed with, as it would with a private copy, and
\* so (by the count alone deciding the run) invokes fn as often and settles
\* the same way.
C11_NoSiblingInterference ==
    \A r \in Retries :
        (rpc[r] # "idle" /\ ropt["A"] = ropt["B"]) =>
            rentry[r] = Get(opts0[ropt[r]].times, DefaultTimes)

\* C12: once the promise retry returned has settled, the options object has
\* the `times` it had when retry was called.
C12_OptionsUnchanged ==
    \A r \in Retries :
        (rpc[r] \in {"resolved", "rejected"} /\ ropt["A"] # ropt["B"]) =>
            opts[ropt[r]].times = opts0[ropt[r]].times

\* C13: chained <promise>.retry(callback, options) on a promise fulfilled
\* with V invokes callback with (V, remainingAttempts) at every attempt, V the
\* same throughout and remainingAttempts the count Promise.retry hands to fn;
\* callback is not invoked before the promise has fulfilled.
C13_ChainedRetryArgs ==
    \A r \in Retries :
        rthis[r].chained =>
            /\ rthis[r].st # "fulfilled" => rpc[r] = "idle" /\ rcb[r] = <<>>
            /\ Len(rcb[r]) = Len(rargs[r])
            /\ \A j \in 1..Len(rcb[r]) :
                  /\ Len(rcb[r][j]) = 2
                  /\ rcb[r][j][1] = rthis[r].v
                  /\ rcb[r][j][2] = rentry[r] - (j - 1)

\* C13 witness: callback has been invoked three times on a chained retry.
C13_Witness ==
    \E r \in Retries :
        rthis[r].chained /\ rthis[r].v = Num(7) /\ Len(rcb[r]) = 3

\* README `worksFifthTime`: the callable's outcomes so far are those of a
\* callable that fails four times and succeeds from its fifth invocation on.
WorksFifthTime(r) == \A j \in 1..Len(routs[r]) : routs[r][j].ok <=> j >= 5

\* C21: the README's `retries` option sets the attempt budget: with
\* {retries: 8} and a callable that first succeeds on its fifth invocation
\* retry resolves to 'Yay'; with {retries: 2} and a callable that keeps
\* failing retry rejects after two attempts with two collected errors.
C21_RetriesOption ==
    LET settled == rpc["A"] \in {"resolved", "rejected"}
        retries == opts0["o1"].retries
    IN  /\ (settled /\ retries = <<8>> /\ WorksFifthTime("A")) =>
              (rpc["A"] = "resolved" /\ rres["A"] = FnValue)
        /\ (settled /\ retries = <<2>> /\ AllFailed("A", Len(routs["A"]))) =>
              /\ rpc["A"] = "rejected"
              /\ Len(rargs["A"]) = 2
              /\ Len(rerrors["A"]) = 2

\* C22: within one invocation of retry, the remaining-attempts value read
\* for attempt k+1 is one less than the value of attempt k, whatever another
\* invocation sharing the options object does in between (the write of
\* times - 1 and the read of the recursive call are in one turn); sharing can
\* change only the count read at entry, which is the value of the first
\* attempt.
C22_DecrementByOne ==
    \A r \in Retries :
        /\ \A k \in 1..(Len(rargs[r]) - 1) : rargs[r][k + 1] = rargs[r][k] - 1
        /\ Len(rargs[r]) >= 1 =>
              /\ rargs[r][1] = rentry[r]
              /\ rtimes[r] \in {rargs[r][Len(rargs[r])], rargs[r][Len(rargs[r])] - 1}
              /\ rpc[r] = "rejected" => rtimes[r] = rargs[r][Len(rargs[r])] - 1

\* Two invocations on one options object, interleaved: both entered with 3,
\* and each made its second attempt with 2.
C22_Witness ==
    /\ ropt["A"] = ropt["B"]
    /\ rargs["A"] = <<3, 2>>
    /\ rargs["B"] = <<3, 2>>

Settled(r) == rpc[r] \in {"resolved", "rejected"}

\* C24: under fairness every invocation of retry that was made settles,
\* resolved with the success value or rejected with the exhausted-retries
\* error, and fn is never invoked more often than the `times` read at entry.
C24_RetryTerminates ==
    /\ [](\A r \in Retries :
            /\ Len(rargs[r]) <= rentry[r]
            /\ Settled(r) =>
                  IF rpc[r] = "resolved" THEN rres[r] = FnValue
                  ELSE rres[r] = ExhaustedMessage(opts[ropt[r]].errorPrefix, FailureLog(r)))
    /\ \A r \in Retries : (rpc[r] # "idle") ~> Settled(r)

\* An invocation with times = 8 settled after eight failed attempts.
C24_Witness ==
    \E r \in Retries :
        /\ rpc[r] = "rejected"
        /\ rentry[r] = 8
        /\ Len(rargs[r]) = 8
        /\ rwoke[r] = 8

\* ---------------------------------------------- Promise.firstSuccess claims

\* firstSuccess was called, every input has settled and every attached
\* handler has run.
FsQuiet ==
    /\ fpc # "idle"
    /\ \A i \in 1..Len(farr) : fst[i] # "pending" /\ fder[i] # "pending"

\* The inputs that succeeded, in settlement order.
FsSuccesses == SelectSeq(forder, LAMBDA i : farr[i].ok)

AllPromises == \A i \in 1..Len(farr) : HasThen(farr[i])

\* C14: when at least one input promise succeeds, the promise firstSuccess
\* returned resolves to the value of the input that succeeded first in
\* settlement order.
C14_FirstSuccessValue ==
    (FsQuiet /\ AllPromises /\ FsSuccesses # <<>>) =>
        (fpc = "resolved" /\ fres = farr[FsSuccesses[1]].v)

\* C15: when every input promise fails, the promise firstSuccess returned
\* rejects with the collection of their errors in settlement order.
C15_AllFailed ==
    (FsQuiet /\ AllPromises /\ Len(farr) >= 1 /\ FsSuccesses = <<>>) =>
        (fpc = "rejected" /\ fres = [k \in 1..Len(forder) |-> farr[forder[k]].v])

README_Inputs == <<InFlight(FALSE, Num(10)), PlainValue(Num(20)), InFlight(FALSE, Num(30))>>

\* C16: a plain value among the inputs counts as an immediate success:
\* firstSuccess([Promise.reject(10), 20, Promise.reject(30)]) resolves to 20.
C16_PlainValueInput ==
    (FsQuiet /\ farr = README_Inputs) => (fpc = "resolved" /\ fres = Num(20))

\* C23: firstSuccess does not fail while an input promise is still pending:
\* it has failed only when every input has settled as a failure; and when it
\* has resolved, its value is that of the first success whatever settled
\* later.
C23_NoFailureWhilePending ==
    AllPromises =>
        /\ fpc \in {"rejected", "threw"} =>
              \A i \in 1..Len(farr) : fst[i] = "rejected"
        /\ fpc = "resolved" =>
              (FsSuccesses # <<>> /\ fres = farr[FsSuccesses[1]].v)

\* ------------------------------------------------------ <promise>.map claims

\* callback has been invoked for element j, with the element and its index.
Invoked(j) == \E k \in 1..Len(minv) : minv[k] = <<marr[j], j - 1>>

\* C17 as stated: once the handler of map has run on the array, callback has
\* been invoked for every element j, whatever callback does for the other
\* elements (pending, succeeded, failed or thrown), and the promise map
\* returned is resolved only when every element's result has settled.
C17_EveryElementStarted ==
    mpc # "idle" =>
        /\ \A j \in 1..Len(marr) : Invoked(j)
        /\ mpc = "resolved" => \A j \in 1..Len(marr) : mst[j] = "fulfilled"

\* C17 amended: once the handler of map has run on the array, callback has
\* been invoked for element j, whatever the other elements' results do
\* (pending, fulfilled or rejected), exactly when callback did not throw for
\* an element before j; and the promise map returned is resolved only when
\* every element's result has settled.
C17_StartedUnlessEarlierThrow ==
    mpc # "idle" =>
        /\ \A j \in 1..Len(marr) :
              Invoked(j) <=> (\A i \in 1..(j - 1) : mcb[i] # "throw")
        /\ Len(minv) <= Len(marr)
        /\ mpc = "resolved" => \A j \in 1..Len(marr) : mst[j] = "fulfilled"

\* Three elements are started although the first has rejected and the second
\* is still pending.
C17_Witness ==
    /\ scenario = "map"
    /\ Len(marr) = 3
    /\ mst[1] = "rejected"
    /\ mst[2] = "pending"
    /\ mst[3] = "fulfilled"
    /\ \A j \in 1..3 : Invoked(j)

\* C18: if callback has failed for an element (thrown, or returned a promise
\* that rejected), the promise map returned is rejected, with the error of the
\* element that failed first; when it is resolved no element has failed and
\* the result has one entry per element.
C18_RejectsOnElementFailure ==
    /\ mfail # <<>> =>
          /\ mpc = "rejected"
          /\ mres = MapError(marr[mfail[1]])
    /\ mpc = "resolved" =>
          /\ mfail = <<>>
          /\ mres = [i \in 1..Len(marr) |-> MapValue(marr[i])]

\* The second of three elements rejected after the first had fulfilled.
C18_Witness ==
    /\ scenario = "map"
    /\ Len(marr) = 3
    /\ mst[1] = "fulfilled"
    /\ mcb[1] = "resolve"
    /\ mfail = <<2>>
    /\ mpc = "rejected"

\* --------------------------------------------------- <promise>.print claims

\* C20 as stated: when the receiver fulfilled with d, the promise print
\* returned settles resolved with exactly d, whatever the text computed from
\* str and whichever printer receives it, whatever that printer does.
C20_AlwaysResolvesToInput ==
    (scenario = "print" /\ pd.ok /\ ppc \in {"resolved", "rejected"}) =>
        /\ ppc = "resolved"
        /\ pres = pd.v

\* C20 amended: when the receiver fulfilled with d and neither str nor the
\* printer throws, the printer chosen (the argument, else Promise.printer,
\* else console.log) receives the text once and the promise resolves with
\* exactly d; when str or the printer throws, the promise rejects with what
\* was thrown.
C20_ResolvesToInputUnlessThrow ==
    (scenario = "print" /\ pd.ok /\ ppc \in {"resolved", "rejected"}) =>
        IF StrThrows(pstr)
        THEN ppc = "rejected" /\ pres = Str("str threw") /\ plog = <<>>
        ELSE /\ plog = <<[sink |-> ChoosePrinter(parg, pglobal), text |-> TextOf(pstr, pd.v)]>>
             /\ IF PrinterThrows(ChoosePrinter(parg, pglobal))
                THEN ppc = "rejected" /\ pres = Str("printer threw")
                ELSE ppc = "resolved" /\ pres = pd.v

\* Promise.printer received the text computed from the value 1 and the
\* promise resolved with 1.
C20_Witness ==
    /\ scenario = "print"
    /\ pd = [ok |-> TRUE, v |-> Num(1)]
    /\ ppc = "resolved"
    /\ pres = Num(1)
    /\ plog = <<[sink |-> "custom", text |-> "New Value = 1"]>>

\* ---------------------------------------------------- <promise>.sync claims

\* C19: chained sync on a receiver that fulfilled with [x0..xn]: the k-th
\* call of callback is callback(x_(k-1), k-1, result of the step before), made
\* only when every earlier step has fulfilled; the promise resolves to the
\* results of callback by index; when step k has failed the promise rejects
\* with its error and callback is not invoked for any later input.
C19_ChainedSync ==
    scenario = "chainSync" /\ spc # "idle" =>
        /\ Len(CallbackCalls) <= Len(sthis)
        /\ \A k \in 1..Len(CallbackCalls) :
              /\ CallbackCalls[k] =
                    <<sthis[k], Num(k - 1), IF k = 1 THEN Undefined ELSE eres[k - 1].v>>
              /\ eres[k] = restartComputer(CallbackCalls[k])
              /\ \A i \in 1..(k - 1) : est[i] = "fulfilled" /\ eres[i].ok
        /\ spc = "resolved" =>
              /\ Len(CallbackCalls) = Len(sthis)
              /\ sret = [i \in 1..Len(sthis) |-> eres[i].v]
              /\ \A i \in 1..Len(sthis) : est[i] = "fulfilled" /\ eres[i].ok
        /\ \A k \in 1..Len(sthis) :
              est[k] = "rejected" =>
                  /\ Len(CallbackCalls) = k
                  /\ spc \in {"await", "rejected"}
                  /\ spc = "rejected" => serr = eres[k].v
        /\ spc = "rejected" => est[Len(CallbackCalls)] = "rejected"

\* Three inputs went through callback one after the other.
C19_Witness ==
    /\ scenario = "chainSync"
    /\ Len(sthis) = 3
    /\ spc = "resolved"
    /\ Len(sret) = 3
    /\ Len(CallbackCalls) = 3

\* The second of three inputs failed and the third was never started.
C19_FailWitness ==
    /\ scenario = "chainSync"
    /\ Len(sthis) = 3
    /\ spc = "rejected"
    /\ Len(CallbackCalls) = 2

\* ------------------------------------------------------ Promise.sync claims

IsFn(i) == tasks[i].kind = "function"

\* Calls logged for the element at JS index j.
CallsAt(j) == {c \in 1..Len(calls) : calls[c].idx = j}

\* C1: a callable at index i >= 1 is invoked only once element i-1 has
\* settled successfully, and no two callables of one sync call are in flight
\* at the same time.
C1_SyncSequential ==
    /\ Cardinality({i \in 1..Len(tasks) : IsFn(i) /\ est[i] = "pending"}) <= 1
    /\ \A i \in 2..Len(tasks) : (IsFn(i) /\ est[i] # "idle") => est[i - 1] = "fulfilled"

\* C1 witness: a second callable in flight after a first callable settled.
C1_Witness ==
    \E i \in 2..Len(tasks) :
        IsFn(i) /\ IsFn(i - 1) /\ est[i] = "pending" /\ est[i - 1] = "fulfilled"

\* C2: a callable at index 0 is invoked with (seedValue, 0).
C2_SeedToFirst ==
    \A c \in 1..Len(calls) :
        calls[c].idx = 0 => calls[c].args = <<seedValue, Num(0)>>

README_Tasks ==
    <<PlainValue(Str("domain.com")), Callable("getServerCount"),
      Callable("increment"), Callable("increment")>>

\* Elements that cannot fail whatever they are given.
Succeeds(i) ==
    \/ tasks[i].kind = "value"
    \/ tasks[i].kind = "promise" /\ tasks[i].ok
    \/ IsFn(i) /\ tasks[i].body \in {"increment", "getServerCount"}

\* C3: when every element succeeds sync never rejects, and what it resolves
\* to has the length of tasks, entry i being the settled value of element i;
\* a callable at index i >= 1 was invoked once, with (entry i-1, i), and a
\* non-callable was never invoked and yields its own value; the README
\* example yields ['domain.com', 10, 11, 12].
C3_SyncResult ==
    /\ (\A i \in 1..Len(tasks) : Succeeds(i)) => spc # "rejected"
    /\ spc = "resolved" =>
        /\ Len(sret) = Len(tasks)
        /\ \A i \in 1..Len(tasks) :
              /\ est[i] = "fulfilled"
              /\ sret[i] = eres[i].v
              /\ IsFn(i) =>
                    /\ Cardinality(CallsAt(i - 1)) = 1
                    /\ i >= 2 =>
                          /\ \A c \in CallsAt(i - 1) : calls[c].args = <<sret[i - 1], Num(i - 1)>>
                          /\ tasks[i].body = "increment" => sret[i] = increment(sret[i - 1])
              /\ ~IsFn(i) => CallsAt(i - 1) = {} /\ sret[i] = tasks[i].v
        /\ tasks = README_Tasks =>
              sret = <<Str("domain.com"), Num(10), Num(11), Num(12)>>

\* C3 witness: the README example has resolved.
C3_Witness == tasks = README_Tasks /\ spc = "resolved"

\* C4: when the element at index k fails, sync never gets past it: no
\* element after k is invoked and nothing is returned; and the promise sync
\* returned rejects with the error of the element it failed at.
C4_SyncShortCircuit ==
    /\ \A k \in 1..Len(tasks) : est[k] = "rejected" =>
          /\ Len(ret) < k
          /\ spc # "resolved"
          /\ sret = <<>>
          /\ \A j \in (k + 1)..Len(tasks) : IsFn(j) => est[j] = "idle" /\ CallsAt(j - 1) = {}
    /\ spc = "rejected" =>
          LET k == Len(ret) + 1
          IN  /\ k <= Len(tasks)
              /\ est[k] = "rejected"
              /\ serr = eres[k].v
              /\ sret = <<>>
    /\ (spc = "await" /\ est[Len(ret) + 1] = "rejected") => ENABLED SyncResumeThrow

\* C4 witness: sync rejected at an element that has predecessors and
\* callable successors.
C4_Witness ==
    /\ spc = "rejected"
    /\ Len(ret) >= 1
    /\ Len(ret) + 2 <= Len(tasks)
    /\ IsFn(Len(ret) + 2)

====
